---- MODULE Spec2Model ----
(***************************************************************************)
(* Model of app.py: the AIS feed callbacks (on_message, on_error,          *)
(* on_close, on_open, start_websocket), the lock-guarded vessel store and  *)
(* the Dash callback update_table.                                         *)
(*                                                                         *)
(* Python strings that the code inspects are sequences of one-character    *)
(* strings.  JSON values are records [t, n, s]: t is the JSON type, n the  *)
(* number (floats are fixed-point, value * Scale), s the text.  Python     *)
(* dicts that are shared by reference (the vessel_info objects) live in    *)
(* heap and are named by object ids; the code never looks at an object's   *)
(* identity, so every state is kept in the normal form Canon numbers.      *)
(***************************************************************************)
EXTENDS Integers, Sequences, FiniteSets, TLC

\* ------------------------------------------------------------------ bounds
\* capacity of the store; app.py sets 1000, the model runs a small store
max_vessels == 2
\* thread slots for receive threads (a closing thread and its successor)
NThreads == 2
\* time.time() returns one of 1..MaxClock
MaxClock == 1
\* a replayed feed has at most MaxFeed messages
MaxFeed == 3

\* fixed-point scale of latitudes, longitudes, speeds and courses
Scale == 100000

Threads == 1..NThreads

\* ------------------------------------------------------------ JSON values
JInt(n) == [t |-> "int", n |-> n, s |-> <<>>]
JFloat(n) == [t |-> "float", n |-> n, s |-> <<>>]
JStr(s) == [t |-> "str", n |-> 0, s |-> s]
None == [t |-> "null", n |-> 0, s |-> <<>>]
Absent == [t |-> "absent", n |-> 0, s |-> <<>>]

\* dict.get(key, default): a JSON null that is present is returned as None
Get(v, default) == IF v = Absent THEN default ELSE v

Unknown == <<"U", "n", "k", "n", "o", "w", "n">>

\* ------------------------------------------------------- PORT_COORDINATES
PORT_COORDINATES ==
  << [name |-> "Los Angeles",         lat |-> 3374900, lon |-> -11826450],
     [name |-> "New York/New Jersey", lat |-> 4066990, lon |-> -7418630],
     [name |-> "Long Beach",          lat |-> 3375490, lon |-> -11821870],
     [name |-> "Savannah",            lat |-> 3202850, lon |-> -8114990],
     [name |-> "Norfolk",             lat |-> 3688440, lon |-> -7633090],
     [name |-> "Houston",             lat |-> 2961130, lon |-> -9498950],
     [name |-> "Seattle",             lat |-> 4724520, lon |-> -12245930],
     [name |-> "Charleston",          lat |-> 3277890, lon |-> -7992780],
     [name |-> "Oakland",             lat |-> 3779550, lon |-> -12228070],
     [name |-> "Miami",               lat |-> 2577880, lon |-> -8017800] >>

PortNames == {PORT_COORDINATES[i].name : i \in 1..Len(PORT_COORDINATES)}

\* ------------------------------------------------------------- sample_data
Chars(n) == IF n = 1 THEN <<"1">> ELSE IF n = 2 THEN <<"2">> ELSE <<"3">>
SampleName(n) ==
  <<"S", "a", "m", "p", "l", "e", " ", "V", "e", "s", "s", "e", "l", " ">> \o Chars(n)

sample_data ==
  << [MMSI |-> <<"2", "2", "0", "1", "2", "3", "4", "5", "6">>,
      ShipName |-> JStr(SampleName(1)),
      Latitude |-> JFloat(3375000), Longitude |-> JFloat(-11826000),
      Speed |-> JFloat(1250000), Course |-> JInt(180), Port |-> "Los Angeles"],
     [MMSI |-> <<"3", "4", "5", "6", "7", "8", "9", "0", "1">>,
      ShipName |-> JStr(SampleName(2)),
      Latitude |-> JFloat(4067000), Longitude |-> JFloat(-7418000),
      Speed |-> JFloat(830000), Course |-> JInt(90), Port |-> "New York/New Jersey"],
     [MMSI |-> <<"4", "1", "2", "3", "4", "5", "6", "7", "8">>,
      ShipName |-> JStr(SampleName(3)),
      Latitude |-> JFloat(3203000), Longitude |-> JFloat(-8115000),
      Speed |-> JFloat(0), Course |-> JInt(270), Port |-> "Savannah"] >>

\* ------------------------------------------------------------------ str()
Digit(d) == <<"0", "1", "2", "3", "4", "5", "6", "7", "8", "9">>[d + 1]

RECURSIVE NatToStr(_)
NatToStr(n) == IF n < 10 THEN <<Digit(n)>> ELSE NatToStr(n \div 10) \o <<Digit(n % 10)>>

\* str(x) of the value position.get("UserID", "") returns
PyStr(v) ==
  CASE v.t = "int" -> IF v.n < 0 THEN <<"-">> \o NatToStr(-v.n) ELSE NatToStr(v.n)
    [] v.t = "str" -> v.s
    [] v.t = "null" -> <<"N", "o", "n", "e">>
    [] OTHER -> <<>>

\* -------------------------------------------------------- is_foreign_ship
\* mutant: the prefix 1 is taken for foreign too
is_foreign_ship_with_1(mmsi) == Len(mmsi) > 0 /\ mmsi[1] \in {"1", "2", "3", "4"}

is_foreign_ship(mmsi) == Len(mmsi) > 0 /\ mmsi[1] \in {"2", "3", "4"}

\* ------------------------------------------------------ find_nearest_port
Abs(x) == IF x < 0 THEN -x ELSE x

\* the subtraction x[1][0]-lat raises TypeError for a value that is no number
IsNumber(v) == v.t \in {"int", "float"}
AsFixed(v) == IF v.t = "int" THEN v.n * Scale ELSE v.n

PortKey(p, lat, lon) == Abs(p.lat - AsFixed(lat)) + Abs(p.lon - AsFixed(lon))

\* min(items, key=...): the first item whose key no other item undercuts
RECURSIVE MinFrom(_, _, _, _)
MinFrom(i, best, lat, lon) ==
  IF i > Len(PORT_COORDINATES) THEN best
  ELSE IF PortKey(PORT_COORDINATES[i], lat, lon) < PortKey(PORT_COORDINATES[best], lat, lon)
       THEN MinFrom(i + 1, i, lat, lon)
       ELSE MinFrom(i + 1, best, lat, lon)

\* mutant: the last minimal item wins
RECURSIVE MinFromLast(_, _, _, _)
MinFromLast(i, best, lat, lon) ==
  IF i > Len(PORT_COORDINATES) THEN best
  ELSE IF PortKey(PORT_COORDINATES[i], lat, lon) <= PortKey(PORT_COORDINATES[best], lat, lon)
       THEN MinFromLast(i + 1, i, lat, lon)
       ELSE MinFromLast(i + 1, best, lat, lon)

find_nearest_port_last_minimal(lat, lon) ==
  IF IsNumber(lat) /\ IsNumber(lon)
  THEN PORT_COORDINATES[MinFromLast(2, 1, lat, lon)].name
  ELSE "Unknown"

\* mutant: the lambda raises on every item, so the except branch answers
find_nearest_port_raising(lat, lon) == "Unknown"

find_nearest_port(lat, lon) ==
  IF IsNumber(lat) /\ IsNumber(lon)
  THEN PORT_COORDINATES[MinFrom(2, 1, lat, lon)].name
  ELSE "Unknown"

\* --------------------------------------------------------------- messages
\* A feed message: parses is json.loads succeeding; hasMessage,
\* hasPositionReport and hasMetaData are the keys the code looks up; the
\* other fields are the entries of the position and metadata blocks.
Msg(uid, lat, lon, sog, cog, name) ==
  [parses |-> TRUE, hasMessage |-> TRUE, hasPositionReport |-> TRUE, hasMetaData |-> TRUE,
   UserID |-> uid, Latitude |-> lat, Longitude |-> lon, Sog |-> sog, Cog |-> cog,
   ShipName |-> name]

Houston == Msg(JInt(235678901), JFloat(2961000), JFloat(-9499000),
               JFloat(1250000), JInt(180), JStr(<<"A">>))

Messages ==
  << Houston,
     Msg(JInt(35), JFloat(3375000), JInt(-118), JFloat(0), None, JStr(<<"B">>)),
     \* an identifier that is text, and a latitude that is text
     Msg(JStr(<<"4", "X">>), JStr(<<"n", "/", "a">>), JFloat(-8018000), Absent, JInt(90), Absent),
     \* rejected: not JSON, no MetaData, another message type
     [Houston EXCEPT !.parses = FALSE],
     [Houston EXCEPT !.hasMetaData = FALSE],
     [Houston EXCEPT !.hasMessage = FALSE],
     \* the first vessel later, off Miami, with no name, speed or course
     Msg(JInt(235678901), JFloat(2577000), JFloat(-8018000), Absent, Absent, Absent),
     \* rejected: another message type, a domestic or unusable identifier,
     \* no position
     [Houston EXCEPT !.hasPositionReport = FALSE],
     [Houston EXCEPT !.UserID = JInt(11)],
     [Houston EXCEPT !.UserID = JInt(-21)],
     [Houston EXCEPT !.UserID = Absent],
     [Houston EXCEPT !.UserID = None],
     [Houston EXCEPT !.UserID = JStr(<<>>)],
     [Houston EXCEPT !.Latitude = Absent],
     [Houston EXCEPT !.Longitude = None] >>

MsgIds == 1..Len(Messages)

\* ---------------------------------------------------- on_message, locally
\* mmsi = str(position.get("UserID", ""))
Mmsi(m) == PyStr(Get(m.UserID, JStr(<<>>)))

\* line 90: the message is a position report
HasMarker(m) == m.hasMessage /\ m.hasPositionReport

\* mutant: line 90 only looks for the key "Message"
Accepts_without_marker(m) ==
  /\ m.parses
  /\ m.hasMessage
  /\ m.hasMetaData
  /\ is_foreign_ship(Mmsi(m))
  /\ Get(m.Latitude, None) # None
  /\ Get(m.Longitude, None) # None

\* mutant: line 92 reads data.get("MetaData", {})
Accepts_metadata_optional(m) ==
  /\ m.parses
  /\ m.hasMessage /\ m.hasPositionReport
  /\ is_foreign_ship(Mmsi(m))
  /\ Get(m.Latitude, None) # None
  /\ Get(m.Longitude, None) # None

\* mutant: line 103 also skips a report without speed
Accepts_requires_speed(m) ==
  /\ m.parses
  /\ m.hasMessage /\ m.hasPositionReport
  /\ m.hasMetaData
  /\ is_foreign_ship(Mmsi(m))
  /\ Get(m.Latitude, None) # None
  /\ Get(m.Longitude, None) # None
  /\ Get(m.Sog, None) # None

\* whether on_message reaches the store for m: no exception before line 119
\* (json.loads, data["MetaData"]) and none of the early exits
Accepts(m) ==
  /\ m.parses
  /\ m.hasMessage /\ m.hasPositionReport
  /\ m.hasMetaData
  /\ is_foreign_ship(Mmsi(m))
  /\ Get(m.Latitude, None) # None
  /\ Get(m.Longitude, None) # None

\* the dict vessel_info of lines 109-117
VesselInfo(m) ==
  [MMSI |-> Mmsi(m),
   ShipName |-> Get(m.ShipName, JStr(Unknown)),
   Latitude |-> Get(m.Latitude, None),
   Longitude |-> Get(m.Longitude, None),
   Speed |-> Get(m.Sog, None),
   Course |-> Get(m.Cog, None),
   Port |-> find_nearest_port(Get(m.Latitude, None), Get(m.Longitude, None))]

\* ------------------------------------------------------------------ state
VARIABLES
  api_key,             \* whether AISSTREAM_API_KEY is set in the environment
  main,                \* the importing thread: "load" until line 293 has run
  pc,                  \* per thread slot: where the receive thread stands
  cur,                 \* per thread: the message on_message is processing (0: none)
  vessel_info,         \* per thread: the local vessel_info (an object id, 0: none)
  heap,                \* the vessel_info dicts alive, by object id
  vessel_data,         \* the store: entries [k, ref] in dict insertion order
  vessel_data_lock,    \* 0: free, t: held by thread t, Reader: held by update_table
  last_update_time,
  websocket_connected,
  lastSeen,            \* the stored keys, least recently updated first
  accepted,            \* the keys on_message has written so far
  todo,                \* per simulated writer: the messages it has yet to deliver
  rpc,                 \* where update_table stands
  vessels,             \* update_table's local: the object ids copied from the store
  copied,              \* the values those objects had when they were copied
  result,              \* what update_table returns: <<>> or one result
  sent,                \* per thread slot: what was sent on its connection
  delivered,           \* replayed feed: the messages given to on_message, in order
  probe,               \* the arguments of a call of find_nearest_port
  nearest              \* what that call returned: <<>> or one port name

vars == <<api_key, main, pc, cur, vessel_info, heap, vessel_data, vessel_data_lock,
          last_update_time, websocket_connected, lastSeen, accepted, todo,
          rpc, vessels, copied, result, sent, delivered, probe, nearest>>

connVars == <<api_key, main, websocket_connected, sent>>
ghostVars == <<lastSeen, accepted>>
readerVars == <<rpc, vessels, copied, result>>
storeVars == <<cur, vessel_info, heap, vessel_data, vessel_data_lock, last_update_time,
               lastSeen, accepted>>

Reader == NThreads + 1

\* -------------------------------------------------------- objects and dict
Range(seq) == {seq[i] : i \in 1..Len(seq)}

\* The objects still referred to, numbered in the order: the store's entries,
\* the other objects of update_table's list, the other locals.  An object
\* nobody refers to is freed (reference counting).
Canon(vd, vs, vi, h) ==
  LET s1 == [i \in 1..Len(vd) |-> vd[i].ref]
      s2 == SelectSeq(vs, LAMBDA r : r \notin Range(s1))
      s3 == SelectSeq([t \in Threads |-> vi[t]],
                      LAMBDA r : r # 0 /\ r \notin (Range(s1) \cup Range(s2)))
      ord == s1 \o s2 \o s3
      new(r) == CHOOSE i \in 1..Len(ord) : ord[i] = r
  IN [vessel_data |-> [i \in 1..Len(vd) |-> [k |-> vd[i].k, ref |-> new(vd[i].ref)]],
      vessels |-> [i \in 1..Len(vs) |-> new(vs[i])],
      vessel_info |-> [t \in Threads |-> IF vi[t] = 0 THEN 0 ELSE new(vi[t])],
      heap |-> [i \in 1..Len(ord) |-> h[ord[i]]]]

Put(c) ==
  /\ vessel_data' = c.vessel_data
  /\ vessels' = c.vessels
  /\ vessel_info' = c.vessel_info
  /\ heap' = c.heap

Keys(vd) == {vd[i].k : i \in 1..Len(vd)}

\* d[k] = ref: an existing key keeps its place, a new key goes last
DictSet(vd, k, ref) ==
  IF k \in Keys(vd)
  THEN [i \in 1..Len(vd) |-> IF vd[i].k = k THEN [k |-> k, ref |-> ref] ELSE vd[i]]
  ELSE Append(vd, [k |-> k, ref |-> ref])

\* mutant: a stored record is updated in place, vessel_data[mmsi].update(vessel_info)
StoreEntry_in_place(vd, h, k, ref) ==
  IF k \in Keys(vd)
  THEN LET old == (CHOOSE i \in 1..Len(vd) : vd[i].k = k)
       IN [vessel_data |-> vd, heap |-> [h EXCEPT ![vd[old].ref] = h[ref]]]
  ELSE [vessel_data |-> DictSet(vd, k, ref), heap |-> h]

\* mutant: a report without speed or course keeps those of the stored record
StoreEntry_merge(vd, h, k, ref) ==
  IF k \in Keys(vd)
  THEN LET old == h[vd[CHOOSE i \in 1..Len(vd) : vd[i].k = k].ref]
       IN [vessel_data |-> DictSet(vd, k, ref),
           heap |-> [h EXCEPT ![ref] =
                       [h[ref] EXCEPT !.Speed = IF @ = None THEN old.Speed ELSE @,
                                      !.Course = IF @ = None THEN old.Course ELSE @]]]
  ELSE [vessel_data |-> DictSet(vd, k, ref), heap |-> h]

\* line 121, vessel_data[mmsi] = vessel_info: the entry refers to the new
\* object, and no object changes
StoreEntry(vd, h, k, ref) == [vessel_data |-> DictSet(vd, k, ref), heap |-> h]

\* del d[k] for every k of ks
DictDel(vd, ks) == SelectSeq(vd, LAMBDA e : e.k \notin ks)

\* vessel_data[k].get("Last Updated", 0): no vessel_info has that key
LastUpdated(rec) == 0

\* sorted(keys, key=...) on items [k, key]: a stable sort, by insertion
\* into the sorted prefix
RECURSIVE Insert(_, _)
Insert(sorted, e) ==
  IF sorted = <<>> THEN <<e>>
  ELSE IF e.key < sorted[Len(sorted)].key
       THEN Append(Insert(SubSeq(sorted, 1, Len(sorted) - 1), e), sorted[Len(sorted)])
       ELSE Append(sorted, e)

RECURSIVE Sorted(_)
Sorted(seq) ==
  IF seq = <<>> THEN <<>>
  ELSE Insert(Sorted(SubSeq(seq, 1, Len(seq) - 1)), seq[Len(seq)])

\* mutant: the slice is one short, [:len(vessel_data) - max_vessels - 1]
oldest_mmsis_one_short(vd, h) ==
  IF Len(vd) > max_vessels
  THEN {vd[i].k : i \in 1..(Len(vd) - max_vessels - 1)}
  ELSE {}

\* mutant: the store is trimmed as soon as it is full, >= for >
oldest_mmsis_at_capacity(vd, h) ==
  IF Len(vd) >= max_vessels
  THEN {vd[i].k : i \in 1..(Len(vd) - max_vessels + 1)}
  ELSE {}

\* mutant: a store over capacity is cleared
oldest_mmsis_all(vd, h) == IF Len(vd) > max_vessels THEN Keys(vd) ELSE {}

\* lines 125-130: the keys on_message deletes
oldest_mmsis(vd, h) ==
  IF Len(vd) > max_vessels
  THEN LET byAge == Sorted([i \in 1..Len(vd) |->
                              [k |-> vd[i].k, key |-> LastUpdated(h[vd[i].ref])]])
       IN {byAge[i].k : i \in 1..(Len(vd) - max_vessels)}
  ELSE {}

\* ---------------------------------------------------------------- initial
\* lines 159-162: the subscription, with the key of the environment
subscribe_message(key) ==
  [APIKey |-> key, BoundingBoxes |-> << << <<-180, -90>>, <<180, 90>> >> >>]

\* no call of find_nearest_port is being looked at
NoProbe == [lat |-> None, lon |-> None]

Init ==
  /\ api_key \in BOOLEAN
  /\ main = "load"
  /\ pc = [t \in Threads |-> "none"]
  /\ cur = [t \in Threads |-> 0]
  /\ vessel_info = [t \in Threads |-> 0]
  /\ heap = <<>>
  /\ vessel_data = <<>>
  /\ vessel_data_lock = 0
  /\ last_update_time = 0
  /\ websocket_connected = FALSE
  /\ lastSeen = <<>>
  /\ accepted = {}
  /\ todo = [t \in Threads |-> {}]
  /\ rpc = "idle"
  /\ vessels = <<>>
  /\ copied = <<>>
  /\ result = <<>>
  /\ sent = [t \in Threads |-> <<>>]
  /\ delivered = <<>>
  /\ probe = NoProbe
  /\ nearest = <<>>

\* -------------------------------------------------------------- on_message
\* lines 83-117 and 133-134: parse, filter, build vessel_info; a message
\* that is skipped or raises returns to the receive loop with nothing changed
OnMessageBegin(t, i) ==
  /\ pc[t] = "recv"
  /\ IF Accepts(Messages[i])
     THEN /\ pc' = [pc EXCEPT ![t] = "store"]
          /\ cur' = [cur EXCEPT ![t] = i]
          /\ Put(Canon(vessel_data, vessels,
                       [vessel_info EXCEPT ![t] = Len(heap) + 1],
                       Append(heap, VesselInfo(Messages[i]))))
     ELSE UNCHANGED <<pc, cur, vessel_info, heap, vessel_data, vessels>>
  /\ UNCHANGED <<vessel_data_lock, last_update_time, lastSeen, accepted>>
  /\ UNCHANGED connVars
  /\ UNCHANGED <<rpc, copied, result, probe, nearest>>

\* lines 120-122: take the lock and write the entry
OnMessageStore(t) ==
  /\ pc[t] = "store"
  /\ vessel_data_lock = 0
  /\ vessel_data_lock' = t
  /\ LET w == StoreEntry(vessel_data, heap, Mmsi(Messages[cur[t]]), vessel_info[t])
     IN Put(Canon(w.vessel_data, vessels, vessel_info, w.heap))
  /\ lastSeen' = Append(SelectSeq(lastSeen, LAMBDA k : k # Mmsi(Messages[cur[t]])),
                        Mmsi(Messages[cur[t]]))
  /\ accepted' = accepted \cup {Mmsi(Messages[cur[t]])}
  /\ pc' = [pc EXCEPT ![t] = "trim"]
  /\ UNCHANGED <<cur, last_update_time, todo, delivered, probe, nearest>>
  /\ UNCHANGED connVars
  /\ UNCHANGED <<rpc, copied, result>>

\* mutant: the trim returns without leaving the with block
OnMessageTrim_keeps_lock(t) ==
  /\ pc[t] = "trim"
  /\ Put(Canon(DictDel(vessel_data, oldest_mmsis(vessel_data, heap)),
               vessels, [vessel_info EXCEPT ![t] = 0], heap))
  /\ lastSeen' = SelectSeq(lastSeen, LAMBDA k : k \in Keys(vessel_data'))
  /\ cur' = [cur EXCEPT ![t] = 0]
  /\ pc' = [pc EXCEPT ![t] = "stamp"]
  /\ UNCHANGED <<vessel_data_lock, last_update_time, accepted, todo, delivered, probe, nearest>>
  /\ UNCHANGED connVars
  /\ UNCHANGED <<rpc, copied, result>>

\* lines 125-130: trim the store, then leave the with block; the locals are
\* not used again
OnMessageTrim(t) ==
  /\ pc[t] = "trim"
  /\ Put(Canon(DictDel(vessel_data, oldest_mmsis(vessel_data, heap)),
               vessels, [vessel_info EXCEPT ![t] = 0], heap))
  /\ lastSeen' = SelectSeq(lastSeen, LAMBDA k : k \in Keys(vessel_data'))
  /\ vessel_data_lock' = 0
  /\ cur' = [cur EXCEPT ![t] = 0]
  /\ pc' = [pc EXCEPT ![t] = "stamp"]
  /\ UNCHANGED <<last_update_time, accepted, todo, delivered, probe, nearest>>
  /\ UNCHANGED connVars
  /\ UNCHANGED <<rpc, copied, result>>

\* line 132, and the return
OnMessageStamp(t) ==
  /\ pc[t] = "stamp"
  /\ \E now \in 1..MaxClock : last_update_time' = now
  /\ pc' = [pc EXCEPT ![t] = "recv"]
  /\ UNCHANGED <<cur, vessel_info, heap, vessel_data, vessel_data_lock, lastSeen, accepted, todo, delivered, probe, nearest>>
  /\ UNCHANGED connVars
  /\ UNCHANGED readerVars

\* ------------------------------------------------------------ the connector
\* the slot a new receive thread gets: the first one no thread occupies
FreeSlots(p) ==
  {s \in Threads : p[s] = "none" /\ \A r \in Threads : p[r] = "none" => s <= r}

\* mutant: lines 170-172 are missing, a connection is tried without a key
start_websocket_without_key_check(p) ==
  {p} \cup {[p EXCEPT ![s] = "connecting"] : s \in FreeSlots(p)}

\* lines 166-191 for the thread slots p: the values pc can have afterwards.
\* Without a key nothing is started; with one, either the thread is started
\* or an exception of lines 176-188 is caught and logged.
start_websocket(p) ==
  IF ~api_key THEN {p}
  ELSE {p} \cup {[p EXCEPT ![s] = "connecting"] : s \in FreeSlots(p)}

\* line 179: a new WebSocketApp, on which nothing has been sent yet
NewConnections(p, q, snt) ==
  [s \in Threads |-> IF q[s] = "connecting" /\ p[s] # "connecting" THEN <<>> ELSE snt[s]]

\* mutant: on_open sends nothing
ws_send_nothing(snt, m) == snt

\* line 163, ws.send(json.dumps(subscribe_message))
ws_send(snt, m) == Append(snt, m)

\* line 293: the module starts the connector as it loads
ModuleLoad ==
  /\ main = "load"
  /\ pc' \in start_websocket(pc)
  /\ main' = "serve"
  /\ sent' = NewConnections(pc, pc', sent)
  /\ UNCHANGED <<api_key, websocket_connected, todo, delivered, probe, nearest>>
  /\ UNCHANGED storeVars
  /\ UNCHANGED readerVars

\* lines 150-164: the connection opened
on_open(t) ==
  /\ pc[t] = "connecting"
  /\ websocket_connected' = TRUE
  /\ sent' = [sent EXCEPT ![t] = ws_send(@, subscribe_message(api_key))]
  /\ pc' = [pc EXCEPT ![t] = "recv"]
  /\ UNCHANGED <<api_key, main, todo, delivered, probe, nearest>>
  /\ UNCHANGED storeVars
  /\ UNCHANGED readerVars

\* lines 136-139: connecting failed, or the open connection broke
on_error(t) ==
  /\ pc[t] \in {"connecting", "recv"}
  /\ websocket_connected' = FALSE
  /\ pc' = [pc EXCEPT ![t] = "errored"]
  /\ UNCHANGED sent
  /\ UNCHANGED <<api_key, main, todo, delivered, probe, nearest>>
  /\ UNCHANGED storeVars
  /\ UNCHANGED readerVars

\* lines 141-147: run_forever ends with on_close, after a close by the peer
\* or after on_error; the thread then sleeps
on_close(t) ==
  /\ pc[t] \in {"recv", "errored"}
  /\ websocket_connected' = FALSE
  /\ pc' = [pc EXCEPT ![t] = "sleep"]
  /\ sent' = [sent EXCEPT ![t] = <<>>]
  /\ UNCHANGED <<api_key, main, todo, delivered, probe, nearest>>
  /\ UNCHANGED storeVars
  /\ UNCHANGED readerVars

\* line 148: after the sleep on_close calls start_websocket; the callback
\* returns, run_forever returns and the thread ends, leaving its slot
Reconnect(t) ==
  /\ pc[t] = "sleep"
  /\ pc' \in start_websocket([pc EXCEPT ![t] = "none"])
  /\ sent' = NewConnections([pc EXCEPT ![t] = "none"], pc', sent)
  /\ UNCHANGED <<api_key, main, websocket_connected, todo, delivered, probe, nearest>>
  /\ UNCHANGED storeVars
  /\ UNCHANGED readerVars

\* ------------------------------------------------------------ update_table
\* the values of the port-filter dropdown: None, or a list of port names
PortFilters ==
  { [given |-> FALSE, ports |-> {}],
    [given |-> TRUE, ports |-> {}],
    [given |-> TRUE, ports |-> {"Los Angeles", "Houston"}] }

\* mutant: an empty list of ports filters nothing
FilterByPort_empty_is_all(rows, ports) ==
  IF ports = {} THEN rows ELSE SelectSeq(rows, LAMBDA v : v.Port \in ports)

\* line 277: the list comprehension
FilterByPort(rows, ports) == SelectSeq(rows, LAMBDA v : v.Port \in ports)

\* time.strftime of line 285
FormatTime(t) == [text |-> "%Y-%m-%d %H:%M:%S", time |-> t]
NoDataYet == [text |-> "No data received yet", time |-> 0]

\* mutant: no sample rows stand in for an empty store
TableResult_no_fallback(vs, f, lut, key) ==
  IF ~f.given
  THEN [raised |-> TRUE, selected_ports |-> f, sample |-> FALSE, rows |-> <<>>,
        status_message |-> <<>>, last_update |-> [text |-> "No data received yet", time |-> 0]]
  ELSE [raised |-> FALSE, selected_ports |-> f, sample |-> FALSE,
        rows |-> SelectSeq(vs, LAMBDA v : v.Port \in f.ports),
        status_message |-> <<>>,
        last_update |-> IF lut > 0 THEN [text |-> "%Y-%m-%d %H:%M:%S", time |-> lut]
                                   ELSE [text |-> "No data received yet", time |-> 0]]

\* lines 265-289 on the copied list vs (as values) with the port filter f:
\* what the callback returns for the table, the status message and the last
\* update (the connection status of lines 252-258 is left out)
TableResult(vs, f, lut, key) ==
  LET shown == IF vs = <<>> THEN sample_data ELSE vs
      filtered == FilterByPort(shown, f.ports)
      msg1 == IF vs = <<>>
              THEN <<"Using sample data. ",
                     IF ~key THEN "AISSTREAM_API_KEY not set."
                             ELSE "Waiting for WebSocket data...">>
              ELSE <<>>
      msg2 == IF filtered = <<>>
              THEN <<" No vessels found for selected ports. Try selecting different ports.">>
              ELSE <<>>
  IN IF ~f.given
     THEN \* "in None" raises TypeError: the callback returns nothing
          [raised |-> TRUE, selected_ports |-> f, sample |-> vs = <<>>, rows |-> <<>>,
           status_message |-> <<>>, last_update |-> NoDataYet]
     ELSE [raised |-> FALSE, selected_ports |-> f, sample |-> vs = <<>>, rows |-> filtered,
           status_message |-> msg1 \o msg2,
           last_update |-> IF lut > 0 THEN FormatTime(lut) ELSE NoDataYet]

\* lines 243-258: the callback starts
UpdateTableBegin ==
  /\ rpc = "idle"
  /\ main = "serve"
  /\ rpc' = "copy"
  /\ UNCHANGED <<vessels, copied, result, pc, todo, delivered, probe, nearest>>
  /\ UNCHANGED connVars
  /\ UNCHANGED storeVars

\* lines 261-262: take the lock and copy the store's values
UpdateTableCopy ==
  /\ rpc = "copy"
  /\ vessel_data_lock = 0
  /\ vessel_data_lock' = Reader
  /\ vessels' = [i \in 1..Len(vessel_data) |-> vessel_data[i].ref]
  /\ copied' = [i \in 1..Len(vessel_data) |-> heap[vessel_data[i].ref]]
  /\ rpc' = "release"
  /\ UNCHANGED <<result, pc, todo, delivered, probe, nearest>>
  /\ UNCHANGED connVars
  /\ UNCHANGED ghostVars
  /\ UNCHANGED <<cur, vessel_info, heap, vessel_data, last_update_time>>

\* line 263: leave the with block
UpdateTableRelease ==
  /\ rpc = "release"
  /\ vessel_data_lock' = 0
  /\ rpc' = "filter"
  /\ UNCHANGED <<vessels, copied, result, pc, todo, delivered, probe, nearest>>
  /\ UNCHANGED connVars
  /\ UNCHANGED ghostVars
  /\ UNCHANGED <<cur, vessel_info, heap, vessel_data, last_update_time>>

\* lines 265-289: sample fallback, port filter, last update; the return
\* value.  The argument selected_ports is first used here, and is f.
UpdateTableFinish(f) ==
  /\ rpc = "filter"
  /\ result' = << TableResult([i \in 1..Len(vessels) |-> heap[vessels[i]]],
                              f, last_update_time, api_key) >>
  /\ rpc' = "done"
  /\ UNCHANGED <<vessels, copied, pc, todo, delivered, probe, nearest>>
  /\ UNCHANGED connVars
  /\ UNCHANGED storeVars

\* the callback has returned: its locals are gone
UpdateTableReturn ==
  /\ rpc = "done"
  /\ rpc' = "idle"
  /\ result' = <<>>
  /\ copied' = <<>>
  /\ Put(Canon(vessel_data, <<>>, vessel_info, heap))
  /\ UNCHANGED <<cur, vessel_data_lock, last_update_time, pc, todo, delivered, probe, nearest>>
  /\ UNCHANGED ghostVars
  /\ UNCHANGED connVars

\* ---------------------------------------------------------- specifications
Receive ==
  \E t \in Threads :
    \/ \E i \in MsgIds : OnMessageBegin(t, i) /\ UNCHANGED <<todo, delivered>>
    \/ OnMessageStore(t)
    \/ OnMessageTrim(t)
    \/ OnMessageStamp(t)

Connector ==
  \/ ModuleLoad
  \/ \E t \in Threads : on_open(t) \/ on_error(t) \/ on_close(t) \/ Reconnect(t)

UpdateTable ==
  \/ UpdateTableBegin
  \/ UpdateTableCopy
  \/ UpdateTableRelease
  \/ \E f \in PortFilters : UpdateTableFinish(f)
  \/ UpdateTableReturn

Next == Connector \/ Receive \/ UpdateTable

\* the program: one importing thread, the receive threads, one Dash callback
Spec == Init /\ [][Next]_vars

\* Simulated writers: every thread slot is a receive loop that delivers a
\* batch of its own messages (message i belongs to writer Owner(i)), each
\* once and in any order, with no connector.
Owner(i) == (i % NThreads) + 1

\* the messages the batches are drawn from: those on_message stores, and the
\* one that does not parse
Batchable == {i \in MsgIds : Accepts(Messages[i]) \/ ~Messages[i].parses}

InitW ==
  /\ api_key = TRUE
  /\ main = "serve"
  /\ pc = [t \in Threads |-> "recv"]
  /\ cur = [t \in Threads |-> 0]
  /\ vessel_info = [t \in Threads |-> 0]
  /\ heap = <<>>
  /\ vessel_data = <<>>
  /\ vessel_data_lock = 0
  /\ last_update_time = 0
  /\ websocket_connected = TRUE
  /\ lastSeen = <<>>
  /\ accepted = {}
  /\ todo \in [Threads -> SUBSET Batchable]
  /\ \A t \in Threads : \A i \in todo[t] : Owner(i) = t
  /\ rpc = "idle"
  /\ vessels = <<>>
  /\ copied = <<>>
  /\ result = <<>>
  /\ sent = [t \in Threads |-> <<subscribe_message(api_key)>>]
  /\ delivered = <<>>
  /\ probe = NoProbe
  /\ nearest = <<>>

ReceiveW ==
  \E t \in Threads :
    \/ \E i \in todo[t] : OnMessageBegin(t, i) /\ todo' = [todo EXCEPT ![t] = @ \ {i}] /\ UNCHANGED delivered
    \/ OnMessageStore(t)
    \/ OnMessageTrim(t)
    \/ OnMessageStamp(t)

NextW == ReceiveW \/ UpdateTable

SpecW == InitW /\ [][NextW]_vars

\* A replayed feed: one open connection whose receive loop gives on_message
\* up to MaxFeed messages, any of Messages in any order, one after the other.
InitR ==
  /\ api_key = TRUE
  /\ main = "serve"
  /\ pc = [t \in Threads |-> IF t = 1 THEN "recv" ELSE "none"]
  /\ cur = [t \in Threads |-> 0]
  /\ vessel_info = [t \in Threads |-> 0]
  /\ heap = <<>>
  /\ vessel_data = <<>>
  /\ vessel_data_lock = 0
  /\ last_update_time = 0
  /\ websocket_connected = TRUE
  /\ lastSeen = <<>>
  /\ accepted = {}
  /\ todo = [t \in Threads |-> {}]
  /\ rpc = "idle"
  /\ vessels = <<>>
  /\ copied = <<>>
  /\ result = <<>>
  /\ sent = [t \in Threads |-> IF t = 1 THEN <<subscribe_message(api_key)>> ELSE <<>>]
  /\ delivered = <<>>
  /\ probe = NoProbe
  /\ nearest = <<>>

ReceiveR ==
  \E t \in Threads :
    \/ \E i \in MsgIds :
         /\ Len(delivered) < MaxFeed
         /\ OnMessageBegin(t, i)
         /\ delivered' = Append(delivered, i)
         /\ UNCHANGED todo
    \/ OnMessageStore(t)
    \/ OnMessageTrim(t)
    \/ OnMessageStamp(t)

NextR == ReceiveR

SpecR == InitR /\ [][NextR]_vars

\* Calls of find_nearest_port: the arguments are drawn from a grid of numbers
\* (floats and ints) that has the positions of the messages, the poles and
\* the date line, and a longitude at which two ports are equally near.
ProbeLats ==
  {JFloat(2961000), JFloat(2577000), JFloat(3375490), JFloat(3400000),
   JInt(33), JInt(0), JInt(90), JInt(-90)}
ProbeLons ==
  {JFloat(-9499000), JFloat(-8018000), JFloat(-11824455), JFloat(-7418630),
   JInt(-118), JInt(0), JInt(180), JInt(-180)}
Probes == {[lat |-> a, lon |-> o] : a \in ProbeLats, o \in ProbeLons}

InitP ==
  /\ api_key = FALSE
  /\ main = "load"
  /\ pc = [t \in Threads |-> "none"]
  /\ cur = [t \in Threads |-> 0]
  /\ vessel_info = [t \in Threads |-> 0]
  /\ heap = <<>>
  /\ vessel_data = <<>>
  /\ vessel_data_lock = 0
  /\ last_update_time = 0
  /\ websocket_connected = FALSE
  /\ lastSeen = <<>>
  /\ accepted = {}
  /\ todo = [t \in Threads |-> {}]
  /\ rpc = "idle"
  /\ vessels = <<>>
  /\ copied = <<>>
  /\ result = <<>>
  /\ sent = [t \in Threads |-> <<>>]
  /\ delivered = <<>>
  /\ probe \in Probes
  /\ nearest = <<>>

\* lines 77-81 for the arguments probe
FindNearestPort ==
  /\ nearest = <<>>
  /\ nearest' = <<find_nearest_port(probe.lat, probe.lon)>>
  /\ UNCHANGED <<probe, delivered, todo>>
  /\ UNCHANGED connVars
  /\ UNCHANGED storeVars
  /\ UNCHANGED <<pc, rpc, vessels, copied, result>>

NextP == FindNearestPort

SpecP == InitP /\ [][NextP]_vars

\* what the scheduler guarantees: the importing thread runs line 293, a
\* connection attempt ends (opened or failed), run_forever calls on_close
\* after on_error, the sleep of on_close ends, and on_message and
\* update_table run to their end
Fairness ==
  /\ WF_vars(ModuleLoad)
  /\ WF_vars(UpdateTable)
  /\ \A t \in Threads :
       /\ WF_vars(pc[t] = "connecting" /\ (on_open(t) \/ on_error(t)))
       /\ WF_vars(pc[t] = "errored" /\ on_close(t))
       /\ WF_vars(Reconnect(t))
       /\ WF_vars(OnMessageStore(t) \/ OnMessageTrim(t) \/ OnMessageStamp(t))

FairSpec == Spec /\ Fairness

\* What the lock needs of the scheduler.  A receive thread inside the with
\* block runs on to its end (one thread at a time is in it).
\* vessel_data_lock.acquire(): a reader that waits for the lock gets it if
\* the lock is free again and again; the receive thread waits for the
\* network between two messages, so the reader is not overtaken forever.
LockFairness ==
  /\ WF_vars(\E t \in Threads : OnMessageTrim(t))
  /\ SF_vars(UpdateTableCopy)

FairLockSpec == Spec /\ LockFairness

\* ------------------------------------------------------------------ claims
Rec(i) == heap[vessel_data[i].ref]
Stored == 1..Len(vessel_data)

\* C1: whenever on_message trims the store, the keys it removes are exactly
\* the least recently updated ones, and the store is left at capacity.
C1_EvictsOldestLastSeen ==
  [][\A t \in Threads :
       (pc[t] = "trim" /\ pc'[t] = "stamp" /\ Len(vessel_data) > max_vessels)
       => /\ Len(vessel_data') = max_vessels
          /\ Keys(vessel_data) \ Keys(vessel_data')
               = {lastSeen[i] : i \in 1..(Len(vessel_data) - max_vessels)}]_vars

\* C2: with the lock free the store holds at most max_vessels records, and
\* so does every list update_table copied.
C2_StoreBounded ==
  /\ vessel_data_lock = 0 => Len(vessel_data) <= max_vessels
  /\ Len(vessels) <= max_vessels /\ Len(copied) <= max_vessels

\* a full store was copied after at least one record had been evicted
C2_Witness ==
  /\ rpc = "release"
  /\ Len(vessels) = max_vessels
  /\ Cardinality(accepted) > max_vessels

\* C3 as claimed: every stored record's Port is one of the ten port names.
C3_PortAlwaysKnown == \A i \in Stored : Rec(i).Port \in PortNames

\* C3, amended: a stored record's Port is one of the ten port names when its
\* Latitude and Longitude are numbers, and "Unknown" when one of them is not.
C3_PortKnownForNumbers ==
  \A i \in Stored :
    IF IsNumber(Rec(i).Latitude) /\ IsNumber(Rec(i).Longitude)
    THEN Rec(i).Port \in PortNames
    ELSE Rec(i).Port = "Unknown"

\* the store holds a record with a port and one with a latitude that is text
C3_Witness ==
  /\ \E i \in Stored : Rec(i).Port = "Houston" /\ IsNumber(Rec(i).Latitude)
  /\ \E i \in Stored : Rec(i).Port = "Unknown" /\ Rec(i).Latitude.t = "str"

\* C4: every record is keyed by the identifier it carries, which starts with
\* 2, 3 or 4; no other message is on its way into the store.
C4_OnlyForeignStored ==
  /\ \A i \in Stored :
       /\ vessel_data[i].k = Rec(i).MMSI
       /\ Len(vessel_data[i].k) > 0
       /\ vessel_data[i].k[1] \in {"2", "3", "4"}
  /\ \A t \in Threads :
       cur[t] # 0 =>
         /\ Messages[cur[t]].UserID # Absent
         /\ PyStr(Messages[cur[t]].UserID) # <<>>
         /\ PyStr(Messages[cur[t]].UserID)[1] \in {"2", "3", "4"}
  /\ accepted \subseteq {k \in {Mmsi(Messages[i]) : i \in MsgIds} :
                           Len(k) > 0 /\ k[1] \in {"2", "3", "4"}}

\* identifiers starting with 3 and with 4 are stored, the latter a text
C4_Witness ==
  /\ Len(vessel_data) = 2
  /\ vessel_data[1].k = <<"3", "5">>
  /\ vessel_data[2].k = <<"4", "X">>

\* C5 as claimed, for a store with records and a list of ports: an empty
\* list returns all stored records, a non-empty one the stored records whose
\* Port is in it.
C5_EmptyFilterReturnsAll ==
  (rpc = "done" /\ copied # <<>> /\ result[1].selected_ports.given) =>
    /\ ~result[1].raised
    /\ result[1].rows = IF result[1].selected_ports.ports = {}
                        THEN copied
                        ELSE FilterByPort(copied, result[1].selected_ports.ports)

\* C5, amended: given a list of ports, update_table returns the records of
\* its snapshot (the stored records, or the sample rows when there are none)
\* whose Port is in the list, in order, so none for an empty list; with no
\* list it raises.
C5_FilterIsMembership ==
  rpc = "done" =>
    LET r == result[1]
        src == IF copied = <<>> THEN sample_data ELSE copied
    IN IF r.selected_ports.given
       THEN /\ ~r.raised
            /\ \A i \in 1..Len(src) :
                 src[i] \in Range(r.rows) <=> src[i].Port \in r.selected_ports.ports
            /\ Range(r.rows) \subseteq Range(src)
            /\ Len(r.rows) <= Len(src)
            /\ r.selected_ports.ports = {} => r.rows = <<>>
       ELSE r.raised

\* an empty list of ports on a store with records returns no record
C5_Witness ==
  /\ rpc = "done"
  /\ copied # <<>>
  /\ result[1].selected_ports = [given |-> TRUE, ports |-> {}]
  /\ result[1].rows = <<>>

\* C6: after every closure the connector eventually makes a new connection
\* attempt.
C6_AlwaysReconnects ==
  \A t \in Threads : (pc[t] = "sleep") ~> (\E s \in Threads : pc[s] = "connecting")

C8_NoLostUpdates ==
  ( /\ rpc = "release"
    /\ \A t \in Threads : pc[t] = "recv" /\ todo[t] = {}
    /\ Cardinality(accepted) <= max_vessels )
  => \A k \in accepted : \E i \in 1..Len(copied) : copied[i].MMSI = k

\* two writers have each written a key of their own, and the store is copied
C8_Witness ==
  /\ rpc = "release"
  /\ \A t \in Threads : pc[t] = "recv" /\ todo[t] = {}
  /\ accepted = {Mmsi(Messages[1]), Mmsi(Messages[2])}
  /\ Owner(1) # Owner(2)
  /\ Len(copied) = 2

\* C9: every record of a copied list is the vessel_info of one accepted
\* message, and stays as it was when copied, until update_table returns; the
\* rows returned are among them.
C9_SnapshotRecordsWhole ==
  /\ Len(vessels) = Len(copied)
  /\ \A i \in 1..Len(vessels) :
       /\ heap[vessels[i]] = copied[i]
       /\ \E j \in MsgIds : Accepts(Messages[j]) /\ copied[i] = VesselInfo(Messages[j])
  /\ (rpc = "done" /\ ~result[1].sample) => Range(result[1].rows) \subseteq Range(copied)

\* the store has a newer record for a key than the list copied before
C9_Witness ==
  /\ rpc = "filter"
  /\ \E i \in 1..Len(copied) : \E j \in Stored :
       /\ copied[i].MMSI = vessel_data[j].k
       /\ copied[i] # Rec(j)
       /\ heap[vessels[i]] = copied[i]

\* C10: a message written for a key the store already has leaves the store
\* with as many entries, one of them under that key, which is the message's
\* vessel_info in every field.
C10_SecondMessageReplaces ==
  [][\A t \in Threads :
       (pc[t] = "store" /\ pc'[t] = "trim" /\ Mmsi(Messages[cur[t]]) \in Keys(vessel_data))
       => /\ Len(vessel_data') = Len(vessel_data)
          /\ Cardinality({i \in 1..Len(vessel_data') :
                            vessel_data'[i].k = Mmsi(Messages[cur[t]])}) = 1
          /\ \A i \in 1..Len(vessel_data') :
               vessel_data'[i].k = Mmsi(Messages[cur[t]])
               => heap'[vessel_data'[i].ref] = VesselInfo(Messages[cur[t]])]_vars

\* the report without name, speed and course has replaced an earlier record
\* of the same vessel
C10_Witness ==
  /\ \E t \in Threads : pc[t] = "trim" /\ cur[t] = 7
  /\ Len(vessel_data) = 2
  /\ vessel_data[1].k = Mmsi(Houston)
  /\ Rec(1).Speed = None /\ Rec(1).Course = None
  /\ Rec(1).ShipName = JStr(Unknown)
  /\ Rec(1).Port = "Miami"

\* C11: a message that parses but is no position report leaves the store,
\* the lock, last_update_time and the receive loop as they were; every
\* stored key and every time stamp comes from a position report.
C11_NoMarkerNoUpsert ==
  /\ [](Keys(vessel_data) \subseteq
          {Mmsi(Messages[delivered[j]]) :
             j \in {n \in 1..Len(delivered) : HasMarker(Messages[delivered[n]])}})
  /\ [](last_update_time > 0 =>
          \E j \in 1..Len(delivered) : HasMarker(Messages[delivered[j]]))
  /\ [][\A i \in MsgIds :
          (delivered' = Append(delivered, i) /\ Messages[i].parses /\ ~HasMarker(Messages[i]))
          => UNCHANGED <<vessel_data, heap, vessel_data_lock, last_update_time,
                         lastSeen, accepted, pc, cur>>]_vars

\* after two stored reports the feed brought a message of another type, and
\* the full store is as the two reports left it
C11_Witness ==
  /\ delivered = <<1, 2, 8>>
  /\ pc[1] = "recv"
  /\ Len(vessel_data) = 2
  /\ Rec(1) = VesselInfo(Messages[1]) /\ Rec(2) = VesselInfo(Messages[2])
  /\ last_update_time > 0

\* the rejections C12 lists: a payload that does not parse, and a position
\* report without metadata block, with a domestic identifier, or without
\* latitude or longitude
C12_Rejected(m) ==
  \/ ~m.parses
  \/ /\ HasMarker(m)
     /\ \/ ~m.hasMetaData
        \/ ~is_foreign_ship(Mmsi(m))
        \/ m.Latitude \in {Absent, None}
        \/ m.Longitude \in {Absent, None}

C12_Valid(delivered_) ==
  {j \in 1..Len(delivered_) :
     HasMarker(Messages[delivered_[j]]) /\ ~C12_Rejected(Messages[delivered_[j]])}

\* C12: a rejected message leaves the store, the lock, last_update_time and
\* the receive loop of its connection as they were; and whenever on_message
\* has returned, the store holds the record of the last valid foreign
\* position report of the feed, whatever was rejected before it.
C12_RejectedIsSkipped ==
  /\ [][\A i \in MsgIds :
          (delivered' = Append(delivered, i) /\ C12_Rejected(Messages[i]))
          => UNCHANGED <<vessel_data, heap, vessel_data_lock, last_update_time,
                         lastSeen, accepted, pc, cur, websocket_connected>>]_vars
  /\ [](pc[1] \in {"recv", "stamp"} =>
          IF C12_Valid(delivered) = {}
          THEN vessel_data = <<>>
          ELSE LET last == CHOOSE j \in C12_Valid(delivered) :
                             \A n \in C12_Valid(delivered) : n <= j
               IN \E n \in Stored : Rec(n) = VesselInfo(Messages[delivered[last]]))

\* a payload that does not parse and a domestic report came first, and the
\* report that followed on the same connection is in the store
C12_Witness ==
  /\ delivered = <<4, 9, 1>>
  /\ pc[1] = "recv" /\ websocket_connected
  /\ Len(vessel_data) = 1
  /\ Rec(1) = VesselInfo(Houston)

\* C13 as claimed: without API key no receive thread exists, the store
\* stays empty, and every update_table call returns the sample rows that
\* pass the port filter.
C13_NoKeyAlwaysReturns ==
  ~api_key =>
    /\ \A t \in Threads : pc[t] = "none"
    /\ vessel_data = <<>> /\ last_update_time = 0
    /\ rpc = "done" =>
         /\ ~result[1].raised
         /\ result[1].rows = FilterByPort(sample_data, result[1].selected_ports.ports)

\* C13, amended: without API key no receive thread exists, nothing is sent,
\* the store stays empty; an update_table call given a list of ports returns
\* the sample rows that pass it, with the status message naming the missing
\* key, and a call given None raises.
C13_NoKeyServesSamples ==
  ~api_key =>
    /\ \A t \in Threads : pc[t] = "none" /\ sent[t] = <<>>
    /\ ~websocket_connected
    /\ vessel_data = <<>> /\ last_update_time = 0
    /\ rpc = "done" =>
         /\ result[1].raised = ~result[1].selected_ports.given
         /\ result[1].selected_ports.given =>
              /\ result[1].sample
              /\ result[1].rows = FilterByPort(sample_data, result[1].selected_ports.ports)
              /\ result[1].status_message[1] = "Using sample data. "
              /\ result[1].status_message[2] = "AISSTREAM_API_KEY not set."
              /\ result[1].last_update = NoDataYet

\* the module was loaded without a key and update_table returns the first
\* sample row
C13_Witness ==
  /\ ~api_key
  /\ main = "serve"
  /\ rpc = "done"
  /\ ~result[1].raised
  /\ result[1].rows = <<sample_data[1]>>

\* C14: the lock is held by on_message only from its write to the end of its
\* trim, and by update_table only for its copy; the holder's next step, which
\* waits for nothing, releases it; and an update_table call that asks for the
\* lock gets it.
C14_LockOnlyAroundStore ==
  /\ [](\A t \in Threads :
          vessel_data_lock = t => pc[t] = "trim" /\ ENABLED OnMessageTrim(t))
  /\ [](vessel_data_lock = Reader => rpc = "release" /\ ENABLED UpdateTableRelease)
  /\ [](vessel_data_lock \in (0..NThreads) \cup {Reader})
  /\ [][vessel_data_lock # 0 => vessel_data_lock' = 0]_vessel_data_lock
  /\ (rpc = "copy") ~> (rpc = "release")

\* update_table asks for the lock while on_message holds it for its trim
C14_Witness ==
  /\ rpc = "copy"
  /\ \E t \in Threads : vessel_data_lock = t /\ pc[t] = "trim"

\* |portLat-lat| + |portLon-lon| for the i-th port and the probed position
C15_Distance(i) ==
  LET num(v) == IF v.t = "int" THEN v.n * Scale ELSE v.n
      dlat == PORT_COORDINATES[i].lat - num(probe.lat)
      dlon == PORT_COORDINATES[i].lon - num(probe.lon)
  IN (IF dlat < 0 THEN -dlat ELSE dlat) + (IF dlon < 0 THEN -dlon ELSE dlon)

\* C15: find_nearest_port returns the first port, in the order of
\* PORT_COORDINATES, that no other port is nearer than; (29.61, -94.99) gives
\* Houston, and the report of 235678901 there is accepted with MMSI
\* "235678901" and Port "Houston".
C15_NearestIsFirstMinimal ==
  /\ nearest # <<>> =>
       \E i \in 1..Len(PORT_COORDINATES) :
         /\ nearest[1] = PORT_COORDINATES[i].name
         /\ \A j \in 1..Len(PORT_COORDINATES) :
              /\ C15_Distance(i) <= C15_Distance(j)
              /\ j < i => C15_Distance(i) < C15_Distance(j)
  /\ (nearest # <<>> /\ probe = [lat |-> JFloat(2961000), lon |-> JFloat(-9499000)])
       => nearest[1] = "Houston"
  /\ Accepts(Houston)
  /\ VesselInfo(Houston).MMSI = <<"2", "3", "5", "6", "7", "8", "9", "0", "1">>
  /\ VesselInfo(Houston).Port = "Houston"

\* at (34.0, -118.24455) Los Angeles and Long Beach are equally near, and
\* nearer than every other port: the call returned Los Angeles
C15_Witness ==
  /\ probe = [lat |-> JFloat(3400000), lon |-> JFloat(-11824455)]
  /\ C15_Distance(1) = C15_Distance(3)
  /\ \A j \in 1..Len(PORT_COORDINATES) : C15_Distance(1) <= C15_Distance(j)
  /\ nearest = <<"Los Angeles">>

\* a position report with foreign identifier, latitude and longitude, and
\* with no speed, course and display name
C16_Bare(m) ==
  /\ m.parses /\ HasMarker(m) /\ m.hasMetaData
  /\ is_foreign_ship(Mmsi(m))
  /\ m.Latitude \notin {Absent, None} /\ m.Longitude \notin {Absent, None}
  /\ m.Sog = Absent /\ m.Cog = Absent /\ m.ShipName = Absent

\* C16: such a report is accepted, and when on_message has written it the
\* store has its record, with the report's position, the display name
\* "Unknown" and no speed and no course.
C16_StoredWithoutOptionalFields ==
  \A i \in MsgIds :
    C16_Bare(Messages[i]) =>
      /\ Accepts(Messages[i])
      /\ \A t \in Threads :
           (cur[t] = i /\ pc[t] = "trim") =>
             \E n \in Stored :
               /\ vessel_data[n].k = Mmsi(Messages[i])
               /\ Rec(n).MMSI = Mmsi(Messages[i])
               /\ Rec(n).Latitude = Messages[i].Latitude
               /\ Rec(n).Longitude = Messages[i].Longitude
               /\ Rec(n).ShipName = JStr(Unknown)
               /\ Rec(n).Speed = None /\ Rec(n).Course = None

\* the first report ever stored is the one off Miami that has no name,
\* speed or course
C16_Witness ==
  /\ \E t \in Threads : pc[t] = "trim" /\ cur[t] = 7
  /\ C16_Bare(Messages[7])
  /\ accepted = {Mmsi(Messages[7])}
  /\ Len(vessel_data) = 1
  /\ Rec(1).ShipName = JStr(Unknown) /\ Rec(1).Speed = None /\ Rec(1).Course = None
  /\ last_update_time = 0

\* the connections open or being opened, and the receive threads inside
\* on_message
C17_Connections == {t \in Threads : pc[t] \in {"connecting", "recv", "store", "trim", "stamp"}}

\* at most one thread slot is in use
C17_AtMostOneThread == Cardinality({t \in Threads : pc[t] # "none"}) <= 1

\* C17: at most one connection is open or being opened at any time, and
\* every close (the end of on_close's sleep) starts exactly one replacement
\* connection, when no connection delivers messages any more.
C17_OneConnectionOneReplacement ==
  /\ [](C17_AtMostOneThread /\ Cardinality(C17_Connections) <= 1)
  /\ [][\A t \in Threads :
          (pc[t] = "sleep" /\ pc'[t] # "sleep")
          => /\ C17_Connections = {}
             /\ Cardinality({s \in Threads : pc'[s] = "connecting"}) = 1]_vars

\* the subscription C18 describes: the API key and the global bounding box
C18_Subscription ==
  [APIKey |-> TRUE, BoundingBoxes |-> << << <<-180, -90>>, <<180, 90>> >> >>]

\* C18: on a connection that is being opened nothing has been sent; on an
\* open connection, and whenever on_message handles a message of it, exactly
\* the one subscription has been sent; never more than one per connection.
C18_OneSubscriptionPerConnection ==
  \A t \in Threads :
    /\ Len(sent[t]) <= 1
    /\ pc[t] \in {"none", "connecting", "sleep"} => sent[t] = <<>>
    /\ pc[t] \in {"recv", "store", "trim", "stamp"} => sent[t] = <<C18_Subscription>>
    /\ cur[t] # 0 => sent[t] = <<C18_Subscription>>

\* on_message handles a report while the store has a record: the connection
\* has its one subscription
C18_Witness ==
  \E t \in Threads :
    /\ pc[t] = "store" /\ cur[t] = 2
    /\ vessel_data # <<>>
    /\ sent[t] = <<C18_Subscription>>

\* C19: when update_table returns stored records (not the sample rows), the
\* last update it returns with them is a time.
C19_RealRowsHaveTime ==
  (rpc = "done" /\ ~result[1].raised /\ ~result[1].sample /\ result[1].rows # <<>>)
  => result[1].last_update # NoDataYet

\* C20: once on_message has written a record the store is not empty, no step
\* empties a store that has records, and a list copied after the first
\* write is not empty, so that update_table does not fall back to the sample
\* rows for it.
C20_NeverEmptyAgain ==
  /\ [](accepted # {} => vessel_data # <<>>)
  /\ [][vessel_data # <<>> => vessel_data' # <<>>]_vars
  /\ [][(rpc = "copy" /\ rpc' = "release" /\ accepted # {}) => copied' # <<>>]_vars
  /\ []((rpc = "done" /\ ~result[1].raised) => (result[1].sample = (copied = <<>>)))

\* three vessels were stored and one evicted, the connection has closed and
\* waits to reconnect, and update_table returns the stored records
C20_Witness ==
  /\ Cardinality(accepted) = 3
  /\ Len(vessel_data) = max_vessels
  /\ \E t \in Threads : pc[t] = "sleep"
  /\ rpc = "done"
  /\ ~result[1].raised /\ ~result[1].sample
  /\ Len(copied) = max_vessels

====
